---------------------------- MODULE Spec2Model ----------------------------
(***************************************************************************)
(* ShoppingCart (src/solutions/shopping_cart.py): an item store, a         *)
(* discount slot and the pricing functions get_subtotal / get_total.       *)
(*                                                                         *)
(* Prices, quantities and discount values are Python floats (IEEE-754      *)
(* binary64).  They are modelled bit-exactly: a float is a sign, a 53-bit  *)
(* significand and a binary exponent, and float *, + round to nearest,     *)
(* ties to even.  get_total leaves binary floating point through           *)
(* Decimal(str(x)) (the shortest decimal string that reads back as x) and  *)
(* continues in exact decimal arithmetic.  Since TLC's integers are 32-bit,*)
(* significands and decimal coefficients are arbitrary-precision naturals  *)
(* held as little-endian sequences of base-10000 limbs.                    *)
(***************************************************************************)
EXTENDS Integers, Sequences, FiniteSets, TLC

---------------------------------------------------------------------------
(* Arbitrary-precision naturals: << >> is 0, limb i has weight 10000^(i-1), *)
(* the last limb is never 0.  The operators avoid deep recursion (carries   *)
(* are found by look-ahead, division by 2^k is multiplication by 5^k and a  *)
(* decimal shift), which keeps TLC's evaluation stack shallow.              *)

Max2(x, y) == IF x > y THEN x ELSE y

BLimb(a, i) == IF i <= Len(a) THEN a[i] ELSE 0

\* a without its high zero limbs.
BTrim(a) ==
  IF a = << >> \/ a[Len(a)] # 0 THEN a
  ELSE LET nz == {i \in 1..Len(a) : a[i] # 0}
       IN  IF nz = {} THEN << >>
           ELSE SubSeq(a, 1, CHOOSE i \in nz : \A j \in nz : j <= i)

\* For 0 <= n < 2^31.
BFromInt(n) ==
  BTrim(<< n % 10000, (n \div 10000) % 10000, n \div 100000000 >>)

\* For a < 2^31.
BToInt(a) == BLimb(a, 1) + 10000 * BLimb(a, 2) + 100000000 * BLimb(a, 3)

\* -1, 0, 1 as a < b, a = b, a > b.
BCmp(a, b) ==
  IF Len(a) < Len(b) THEN -1
  ELSE IF Len(a) > Len(b) THEN 1
  ELSE LET df == {i \in 1..Len(a) : a[i] # b[i]}
       IN  IF df = {} THEN 0
           ELSE LET i == CHOOSE i \in df : \A j \in df : j <= i
                IN  IF a[i] < b[i] THEN -1 ELSE 1

BAdd(a, b) ==
  LET n == Max2(Len(a), Len(b)) + 1
      s == << >> \o [i \in 1..n |-> BLimb(a, i) + BLimb(b, i)]
      carry(i) == IF \E j \in 1..(i - 1) :
                       s[j] >= 10000 /\ \A k \in (j + 1)..(i - 1) : s[k] >= 9999
                    THEN 1 ELSE 0
  IN  BTrim(<< >> \o [i \in 1..n |-> (s[i] + carry(i)) % 10000])

\* a - b for a >= b.
BSub(a, b) ==
  LET d == << >> \o [i \in 1..Len(a) |-> a[i] - BLimb(b, i)]
      borrow(i) == IF \E j \in 1..(i - 1) :
                        d[j] < 0 /\ \A k \in (j + 1)..(i - 1) : d[k] <= 0
                     THEN 1 ELSE 0
  IN  BTrim(<< >> \o [i \in 1..Len(a) |-> (d[i] - borrow(i) + 10000) % 10000])

\* a * k for 0 <= k <= 10000.
BMulSmall(a, k) ==
  LET lo == << >> \o [i \in 1..Len(a) |-> (a[i] * k) % 10000]
      hi == << 0 >> \o [i \in 1..Len(a) |-> (a[i] * k) \div 10000]
  IN  BAdd(lo, hi)

Zeros(w) == << >> \o [i \in 1..w |-> 0]

RECURSIVE BMulColumn(_, _, _, _)
\* The sum of a[i] * b[k + 1 - i] over the i from i up that have both limbs:
\* column k of the long multiplication (at most 21 terms below 10^8 each).
BMulColumn(a, b, k, i) ==
  IF i > Len(a) \/ i > k THEN 0
  ELSE a[i] * b[k + 1 - i] + BMulColumn(a, b, k, i + 1)

\* a * b: the columns, each split into three limbs, added up.
BMul(a, b) ==
  IF a = << >> \/ b = << >> THEN << >>
  ELSE LET n   == Len(a) + Len(b) - 1
           col == << >> \o [k \in 1..n |->
                              BMulColumn(a, b, k, Max2(1, k + 1 - Len(b)))]
           lo  == << >> \o [k \in 1..n |-> col[k] % 10000]
           mid == << 0 >> \o [k \in 1..n |-> (col[k] \div 10000) % 10000]
           hi  == << 0, 0 >> \o [k \in 1..n |-> col[k] \div 100000000]
       IN  BAdd(BAdd(lo, mid), hi)

Pow10Small(r) == IF r = 0 THEN 1 ELSE IF r = 1 THEN 10 ELSE IF r = 2 THEN 100 ELSE 1000

\* a * 10^k
BShl10(a, k) ==
  IF a = << >> THEN << >>
  ELSE Zeros(k \div 4) \o BMulSmall(a, Pow10Small(k % 4))

\* floor(a / 10^k)
BShr10(a, k) ==
  LET w == k \div 4
      d == Pow10Small(k % 4)
      u == 10000 \div d
      t == IF w >= Len(a) THEN << >> ELSE SubSeq(a, w + 1, Len(a))
  IN  BTrim(<< >> \o [i \in 1..Len(t) |-> (t[i] \div d) + (BLimb(t, i + 1) % d) * u])

\* a mod 10^k
BLow10(a, k) ==
  LET w == k \div 4
      d == Pow10Small(k % 4)
  IN  BTrim(<< >> \o [i \in 1..(w + 1) |->
                         IF i <= w THEN BLimb(a, i) ELSE BLimb(a, i) % d])

BIsOdd(a) == a # << >> /\ a[1] % 2 = 1

RECURSIVE BPow(_, _)
\* b^k for a small b, by squaring.
BPow(b, k) ==
  IF k = 0 THEN << 1 >>
  ELSE LET h == BPow(b, k \div 2)
       IN  IF k % 2 = 0 THEN BMul(h, h) ELSE BMulSmall(BMul(h, h), b)

\* The powers of 2 and of 5 the model needs, computed once; @@ makes each an
\* explicit table rather than a rule applied on every use.
Pow2Table == [k \in 0..128 |-> BPow(2, k)] @@ << >>
Pow5Table == [k \in 0..128 |-> BPow(5, k)] @@ << >>

BPow2(k) == Pow2Table[k]
BPow5(k) == Pow5Table[k]
BPow10(k) == Zeros(k \div 4) \o << Pow10Small(k % 4) >>

\* Number of bits of a > 0: the k with 2^(k-1) <= a < 2^k.
BBitLen(a) ==
  CHOOSE k \in (13 * (Len(a) - 1) + 1)..(14 * Len(a)) :
    BCmp(a, BPow2(k)) < 0 /\ BCmp(a, BPow2(k - 1)) >= 0

\* a / 2^k rounded to the nearest integer, ties to even: a * 5^k has the
\* quotient above its low k decimal digits and the remainder in them.
BShrHalfEven(a, k) ==
  IF k = 0 THEN a
  ELSE LET n == BMul(a, BPow5(k))
           q == BShr10(n, k)
           c == BCmp(BMulSmall(BLow10(n, k), 2), BPow10(k))
       IN  IF c > 0 \/ (c = 0 /\ BIsOdd(q)) THEN BAdd(q, << 1 >>) ELSE q

---------------------------------------------------------------------------
(* Python float: IEEE-754 binary64, finite, below 2^53 in magnitude.       *)
(* [neg, m, e] is (-1)^neg * m * 2^e with 2^52 <= m < 2^53, or m = << >>   *)
(* (zero, e = 0).  A Python int argument (quantity 3) takes part in the    *)
(* same operations after an exact conversion, so it is held as the float   *)
(* of equal value.                                                         *)

FZero == [neg |-> FALSE, m |-> << >>, e |-> 0]

\* q * 2^e for a rounded significand q <= 2^53.
FPack(neg, q, e) ==
  IF BCmp(q, BPow2(53)) = 0 THEN [neg |-> neg, m |-> BPow2(52), e |-> e + 1]
  ELSE [neg |-> neg, m |-> q, e |-> e]

\* The double nearest to M * 2^e (round to nearest, ties to even).
FRound(neg, M, e) ==
  IF M = << >> THEN FZero
  ELSE LET L == BBitLen(M)
       IN  IF L <= 53
             THEN [neg |-> neg, m |-> BMul(M, BPow2(53 - L)), e |-> e - (53 - L)]
             ELSE FPack(neg, BShrHalfEven(M, L - 53), e + (L - 53))

\* float * float
FMul(a, b) ==
  IF a.m = << >> \/ b.m = << >> THEN FZero
  ELSE FRound(a.neg # b.neg, BMul(a.m, b.m), a.e + b.e)

\* float + float, both operands >= 0 (all the cart ever adds).
FAdd(a, b) ==
  IF a.m = << >> THEN b
  ELSE IF b.m = << >> THEN a
  ELSE LET e == IF a.e < b.e THEN a.e ELSE b.e
       IN  FRound(FALSE,
                  BAdd(BMul(a.m, BPow2(a.e - e)), BMul(b.m, BPow2(b.e - e))),
                  e)

\* x < 0 and x <= 0 on floats.
FLtZero(x) == x.neg /\ x.m # << >>
FLeZero(x) == x.neg \/ x.m = << >>

\* The double nearest to a / 1000, a > 0: a * 2^k / 1000 for the k that
\* leaves a 53-bit quotient, rounded on the remainder.
FOfThousandths(neg, a) ==
  LET k0 == 63 - BBitLen(a)
      k  == IF BCmp(BShr10(BMul(a, BPow2(k0)), 3), BPow2(53)) >= 0
              THEN k0 - 1 ELSE k0
      n  == BMul(a, BPow2(k))
      q  == BShr10(n, 3)
      r  == BToInt(BLow10(n, 3))
      up == r > 500 \/ (r = 500 /\ BIsOdd(q))
  IN  FPack(neg, IF up THEN BAdd(q, << 1 >>) ELSE q, -k)

\* The float a caller passes when it writes the decimal literal n/1000
\* (2.99 is FLit(2990), 2.5 is FLit(2500), the int 3 is FLit(3000)).
FLit(n) ==
  IF n = 0 THEN FZero
  ELSE FOfThousandths(n < 0, BFromInt(IF n < 0 THEN -n ELSE n))

---------------------------------------------------------------------------
(* decimal.Decimal values: [neg, c, sc] is (-1)^neg * c * 10^(-sc).  Only  *)
(* the value is modelled, not the exponent Decimal happens to carry.  The  *)
(* default context rounds results to 28 significant digits; get_total's    *)
(* amounts stay below that (DecimalStaysExact), so +, -, * and / 100 are   *)
(* exact here.                                                             *)

DecZero == [neg |-> FALSE, c |-> << >>, sc |-> 0]

DecOfInt(n) == [neg |-> n < 0, c |-> BFromInt(IF n < 0 THEN -n ELSE n), sc |-> 0]

\* The decimal with j places nearest to x among those that read back as x,
\* if there is one: [ok, c].  x is xs / 10^S exactly, and a decimal reads
\* back as x when it lies between los / 10^S and his / 10^S, the midpoints
\* to the neighbouring floats (themselves included when x's significand is
\* even, as ties round to even).
ReprCandidate(xs, los, his, even, S, j) ==
  LET D0  == BShr10(xs, S - j)
      D1  == BAdd(D0, << 1 >>)
      V0  == BShl10(D0, S - j)
      V1  == BShl10(D1, S - j)
      In(V) == LET a == BCmp(los, V)
                   b == BCmp(V, his)
               IN  IF even THEN a <= 0 /\ b <= 0 ELSE a < 0 /\ b < 0
  IN  IF In(V0) /\ In(V1)
        THEN [ok |-> TRUE,
              c |-> IF BCmp(BSub(xs, V0), BSub(V1, xs)) <= 0 THEN D0 ELSE D1]
        ELSE IF In(V0) THEN [ok |-> TRUE, c |-> D0]
        ELSE IF In(V1) THEN [ok |-> TRUE, c |-> D1]
        ELSE [ok |-> FALSE, c |-> << >>]

RECURSIVE ReprFrom(_, _, _, _, _, _, _)
\* The least number of places in lo..hi at which a candidate exists (one
\* exists at hi, and at every place count above one at which one exists).
ReprFrom(xs, los, his, even, S, lo, hi) ==
  IF lo = hi THEN [c |-> ReprCandidate(xs, los, his, even, S, lo).c, sc |-> lo]
  ELSE LET mid == (lo + hi) \div 2
       IN  IF ReprCandidate(xs, los, his, even, S, mid).ok
             THEN ReprFrom(xs, los, his, even, S, lo, mid)
             ELSE ReprFrom(xs, los, his, even, S, mid + 1, hi)

RECURSIVE ReprUp(_, _, _, _, _, _)
\* The least number of places from j up at which a candidate exists.
ReprUp(xs, los, his, even, S, j) ==
  LET cand == ReprCandidate(xs, los, his, even, S, j)
  IN  IF cand.ok THEN [c |-> cand.c, sc |-> j]
      ELSE ReprUp(xs, los, his, even, S, j + 1)

\* The highest decimal digit position (units are 0) at which a and b differ,
\* a # b; above it the two agree, so no multiple of a higher power of ten
\* lies strictly between them.
TopDiffDigit(a, b) ==
  IF Len(a) # Len(b) THEN 4 * Max2(Len(a), Len(b))
  ELSE LET df == {i \in 1..Len(a) : a[i] # b[i]}
           i  == CHOOSE i \in df : \A k \in df : k <= i
           dd == {d \in 0..3 : a[i] \div Pow10Small(d) # b[i] \div Pow10Small(d)}
       IN  4 * (i - 1) + (CHOOSE d \in dd : \A k \in dd : k <= d)

\* Decimal(str(x)): str gives the shortest decimal that reads back as x.
\* With S = 2 - e, x = 4m * 5^S / 10^S; its neighbours are a half unit
\* (2 * 5^S) away, the lower one a quarter unit when m = 2^52.  x's own
\* expansion (S places) always reads back, and so does every place count
\* above one that does.  The search starts where the two midpoints first
\* differ: j0 places fall just short of that digit.
DecOfFloat(x) ==
  IF x.m = << >> THEN DecZero
  ELSE LET S   == 2 - x.e
           f   == BPow5(S)
           m4  == BMulSmall(x.m, 4)
           dn  == IF BCmp(x.m, BPow2(52)) = 0 THEN << 1 >> ELSE << 2 >>
           xs  == BMul(m4, f)
           los == BMul(BSub(m4, dn), f)
           his == BMul(BAdd(m4, << 2 >>), f)
           ev  == ~BIsOdd(x.m)
           j0  == S - TopDiffDigit(los, his) - 1
           r   == IF j0 < 0 THEN ReprUp(xs, los, his, ev, S, 0)
                  ELSE IF ReprCandidate(xs, los, his, ev, S, j0).ok
                    THEN ReprFrom(xs, los, his, ev, S, 0, j0)
                  ELSE ReprUp(xs, los, his, ev, S, j0 + 1)
       IN  [neg |-> x.neg, c |-> r.c, sc |-> r.sc]

DecMul(a, b) ==
  LET c == BMul(a.c, b.c)
  IN  IF c = << >> THEN DecZero
      ELSE [neg |-> a.neg # b.neg, c |-> c, sc |-> a.sc + b.sc]

DecNeg(a) == IF a.c = << >> THEN a ELSE [a EXCEPT !.neg = ~a.neg]

DecAdd(a, b) ==
  LET sc == Max2(a.sc, b.sc)
      ac == BShl10(a.c, sc - a.sc)
      bc == BShl10(b.c, sc - b.sc)
      cmp == BCmp(ac, bc)
  IN  IF a.neg = b.neg THEN [neg |-> a.neg, c |-> BAdd(ac, bc), sc |-> sc]
      ELSE IF cmp = 0 THEN [neg |-> FALSE, c |-> << >>, sc |-> sc]
      ELSE IF cmp > 0 THEN [neg |-> a.neg, c |-> BSub(ac, bc), sc |-> sc]
      ELSE [neg |-> b.neg, c |-> BSub(bc, ac), sc |-> sc]

DecSub(a, b) == DecAdd(a, DecNeg(b))

\* a / Decimal('100')
DecDiv100(a) == IF a.c = << >> THEN a ELSE [a EXCEPT !.sc = a.sc + 2]

DecLtZero(a) == a.neg /\ a.c # << >>

\* a.quantize(Decimal('0.01'), rounding=ROUND_HALF_UP), as signed cents.
QuantizeHalfUp(a) ==
  LET mag == IF a.sc <= 2 THEN BShl10(a.c, 2 - a.sc)
             ELSE LET q == BShr10(a.c, a.sc - 2)
                      r == BLow10(a.c, a.sc - 2)
                  IN  IF BCmp(BMulSmall(r, 2), BPow10(a.sc - 2)) >= 0
                        THEN BAdd(q, << 1 >>) ELSE q
  IN  IF a.neg THEN -BToInt(mag) ELSE BToInt(mag)

---------------------------------------------------------------------------
(* Inputs.  Literals are thousandths: 290 is the float 0.29.               *)

Names == {"Apple", "Banana"}

\* add_item prices: 0.29, 10.0 and the invalid -1.5.
PriceLits == {290, 10000, -1500}

\* add_item quantities: 2.5 and the invalid 0, -1.
QuantityLits == {2500, 0, -1000}

\* add_item quantities of the price-list caller: 2.5, 100 and the invalid 0.
ListQuantityLits == {2500, 100000, 0}

\* apply_discount types; "bogus" stands for any string that is neither.
DiscountTypes == {"percentage", "fixed", "bogus"}

\* apply_discount values: 20 and 150.
ValueLits == {20000, 150000}

\* The floats of the literals, computed once.
FloatOf ==
  [n \in PriceLits \cup QuantityLits \cup ListQuantityLits \cup ValueLits |->
     FLit(n)] @@ << >>

\* An item's quantity is the sum of at most MaxAdds add_item quantities.
MaxAdds == 2

---------------------------------------------------------------------------
(* The cart.  self.items is a dict, which keeps insertion order (sum()     *)
(* adds the lines in that order): a sequence of [name, price, quantity].   *)
(* self.discount is None or the dict [code, type, value].                  *)
(*                                                                         *)
(* last tells what the latest call was and met.  lits, adds, live and      *)
(* applied are history variables, kept apart from the cart: the decimal    *)
(* values the caller wrote for each line (the price of the first add since *)
(* the name was last absent, the sum of the quantities), the number of     *)
(* quantities summed into each name, the names added and not removed       *)
(* since, and the arguments of the latest apply_discount call.             *)

VARIABLES items, discount, last, lits, adds, live, applied

vars == << items, discount, last, lits, adds, live, applied >>

NoDiscount == [type |-> "None"]

\* name in self.items
Has(its, name) == \E i \in 1..Len(its) : its[i].name = name

IndexOf(its, name) == CHOOSE i \in 1..Len(its) : its[i].name = name

\* Variant of Without: an absent name drops the newest entry.
WithoutOrNewest(its, name) ==
  IF Has(its, name) THEN SelectSeq(its, LAMBDA it : it.name # name)
  ELSE SubSeq(its, 1, Len(its) - 1)

\* self.items.pop(name, None): the other entries, in their order.
Without(its, name) == SelectSeq(its, LAMBDA it : it.name # name)

\* get_item_count: len(self.items)
get_item_count(its) == Len(its)

RECURSIVE SumFrom(_, _, _)
SumFrom(its, i, acc) ==
  IF i > Len(its) THEN acc
  ELSE SumFrom(its, i + 1, FAdd(acc, FMul(its[i].price, its[i].quantity)))

\* _calculate_raw_subtotal: sum(price * quantity), in floats, from int 0.
\* The lines are added left to right, each addition rounded.  (From Python
\* 3.12 on sum() carries a compensation term; for the one or two lines of
\* these carts it returns the same float.)
calculate_raw_subtotal(its) == SumFrom(its, 1, FZero)

\* round(x, 2) of a float x >= 0, in cents: Python rounds the float's exact
\* binary value correctly, ties to even.
PyRound2(x) ==
  IF x.m = << >> THEN 0
  ELSE IF x.e >= 0 THEN BToInt(BMul(BMulSmall(x.m, 100), BPow2(x.e)))
  ELSE BToInt(BShrHalfEven(BMulSmall(x.m, 100), -x.e))

\* get_subtotal, in cents.
get_subtotal(its) == PyRound2(calculate_raw_subtotal(its))

\* TAX_RATE = 0.085
TAX_RATE == FLit(85)

\* Decimal('1') + Decimal(str(self.TAX_RATE))
TaxFactor == DecAdd(DecOfInt(1), DecOfFloat(TAX_RATE))

\* Variant of Discounted: every type but "percentage" is taken as fixed.
DiscountedElseFixed(subtotal, disc) ==
  IF disc = NoDiscount THEN subtotal
  ELSE IF disc.type = "percentage"
    THEN DecSub(subtotal, DecMul(subtotal, DecDiv100(DecOfFloat(disc.value))))
  ELSE DecSub(subtotal, DecOfFloat(disc.value))

\* The amount after the discount branches of get_total.
Discounted(subtotal, disc) ==
  IF disc = NoDiscount THEN subtotal
  ELSE IF disc.type = "percentage"
    THEN LET discount_value == DecOfFloat(disc.value)
             discount_amount == DecMul(subtotal, DecDiv100(discount_value))
         IN  DecSub(subtotal, discount_amount)
  ELSE IF disc.type = "fixed"
    THEN DecSub(subtotal, DecOfFloat(disc.value))
  ELSE subtotal

\* Variant of Clamp: the comparison with zero is left out.
ClampMissing(subtotal) == subtotal

\* subtotal < 0 => Decimal('0')
Clamp(subtotal) == IF DecLtZero(subtotal) THEN DecZero ELSE subtotal

\* subtotal * (1 + tax_rate)
WithTax(subtotal) == DecMul(subtotal, TaxFactor)

\* The tax-inclusive total before the final quantize.
UnroundedTotal(its, disc) ==
  WithTax(Clamp(Discounted(DecOfFloat(calculate_raw_subtotal(its)), disc)))

\* get_total, in cents (float() of a two-place decimal).
get_total(its, disc) == QuantizeHalfUp(UnroundedTotal(its, disc))

\* The largest coefficient of get_total has at most 28 digits (7 limbs).
DecimalStaysExact == Len(UnroundedTotal(items, discount).c) <= 7

---------------------------------------------------------------------------
(* Operations.                                                             *)

Init ==
  /\ items = << >>
  /\ discount = NoDiscount
  /\ last = "init"
  /\ lits = << >>
  /\ adds = [n \in Names |-> 0]
  /\ live = {}
  /\ applied = NoDiscount

\* Variant of Invalid: a zero quantity passes.
InvalidZeroPasses(price, quantity) == FLtZero(price) \/ FLtZero(quantity)

\* Variant of Invalid: the price is not checked.
InvalidPriceUnchecked(price, quantity) == FLeZero(quantity)

\* The checks of add_item: price < 0, then quantity <= 0.
Invalid(price, quantity) == FLtZero(price) \/ FLeZero(quantity)

\* Variant of AddedItems: every add stores a new entry.
AddedItemsAlwaysNew(its, name, price, quantity) ==
  Append(its, [name |-> name, price |-> price, quantity |-> quantity])

\* Variant of AddedItems: adding to an existing name takes the new price.
AddedItemsNewPrice(its, name, price, quantity) ==
  IF Has(its, name)
    THEN LET i == IndexOf(its, name)
         IN  [its EXCEPT ![i].quantity = FAdd(its[i].quantity, quantity),
                         ![i].price = price]
    ELSE Append(its, [name |-> name, price |-> price, quantity |-> quantity])

\* self.items after a valid add_item.
AddedItems(its, name, price, quantity) ==
  IF Has(its, name)
    THEN LET i == IndexOf(its, name)
         IN  [its EXCEPT ![i].quantity = FAdd(its[i].quantity, quantity)]
    ELSE Append(its, [name |-> name, price |-> price, quantity |-> quantity])

\* What the caller wrote for each line: the price of the first add, the
\* sum of the quantities.
AddedLits(ls, name, p, q) ==
  IF Has(ls, name)
    THEN LET i == IndexOf(ls, name)
         IN  [ls EXCEPT ![i].quantity = ls[i].quantity + q]
    ELSE Append(ls, [name |-> name, price |-> p, quantity |-> q])

\* add_item raising ValueError: nothing is stored.
AddItemRaise(name, p, q) ==
  /\ Invalid(FloatOf[p], FloatOf[q])
  /\ last' = IF Has(items, name) THEN "add_item raised, name present"
                                 ELSE "add_item raised, name absent"
  /\ UNCHANGED << items, discount, lits, adds, live, applied >>

AddItemOk(name, p, q) ==
  /\ ~Invalid(FloatOf[p], FloatOf[q])
  /\ adds[name] < MaxAdds
  /\ adds' = [adds EXCEPT ![name] = adds[name] + 1]
  /\ live' = live \cup {name}
  /\ lits' = AddedLits(lits, name, p, q)
  /\ items' = AddedItems(items, name, FloatOf[p], FloatOf[q])
  /\ last' = IF ~(name \in live) THEN "add_item, new name"
             ELSE IF lits[IndexOf(lits, name)].price = p
               THEN "add_item, name present, same price"
             ELSE "add_item, name present, other price"
  /\ UNCHANGED << discount, applied >>

AddItem(name, p, q) == AddItemRaise(name, p, q) \/ AddItemOk(name, p, q)

RemoveItem(name) ==
  /\ items' = Without(items, name)
  /\ lits' = Without(lits, name)
  /\ adds' = [adds EXCEPT ![name] = 0]
  /\ live' = live \ {name}
  /\ last' = IF Has(items, name) THEN "remove_item, name present"
                                 ELSE "remove_item, name absent"
  /\ UNCHANGED << discount, applied >>

\* Variant of NewDiscount: a discount already in the slot stays.
NewDiscountKeepsFirst(old, code, type, value) ==
  IF old = NoDiscount THEN [code |-> code, type |-> type, value |-> value]
  ELSE old

\* self.discount after apply_discount.
NewDiscount(old, code, type, value) ==
  [code |-> code, type |-> type, value |-> value]

ApplyDiscount(code, type, v) ==
  /\ discount' = NewDiscount(discount, code, type, FloatOf[v])
  /\ applied' = [type |-> type, value |-> v]
  /\ last' = IF applied = NoDiscount THEN "apply_discount, first"
                                     ELSE "apply_discount, again"
  /\ UNCHANGED << items, lits, adds, live >>

Next ==
  \/ \E n \in Names, p \in PriceLits, q \in QuantityLits : AddItem(n, p, q)
  \/ \E n \in Names : RemoveItem(n)
  \/ \E t \in DiscountTypes, v \in ValueLits : ApplyDiscount("SAVE", t, v)

Spec == Init /\ [][Next]_vars

\* The pricing claims are checked with a caller that buys from a price
\* list: a part of Spec's behaviours.
ListPrice == [n \in Names |-> IF n = "Apple" THEN 290 ELSE 10000]

PricingNext ==
  \/ \E n \in Names, q \in ListQuantityLits : AddItem(n, ListPrice[n], q)
  \/ \E n \in Names : RemoveItem(n)
  \/ \E t \in DiscountTypes, v \in ValueLits : ApplyDiscount("SAVE", t, v)

PricingSpec == Init /\ [][PricingNext]_vars

---------------------------------------------------------------------------
(* What the specification calls the exact amounts: decimal arithmetic on   *)
(* the values the caller wrote, in thousandths.                            *)

DecOfLit(n) == [neg |-> n < 0, c |-> BFromInt(IF n < 0 THEN -n ELSE n), sc |-> 3]

RECURSIVE ExactSumFrom(_, _, _)
ExactSumFrom(ls, i, acc) ==
  IF i > Len(ls) THEN acc
  ELSE ExactSumFrom(ls, i + 1,
         DecAdd(acc, DecMul(DecOfLit(ls[i].price), DecOfLit(ls[i].quantity))))

\* The exact sum of price * quantity.
ExactRawSubtotal(ls) == ExactSumFrom(ls, 1, DecZero)

\* The exact subtotal rounded half-up to cents.
ExactSubtotal(ls) == QuantizeHalfUp(ExactRawSubtotal(ls))

\* D: the exact subtotal less the discount of the latest apply_discount.
ExactDiscounted(ls, ap) ==
  LET sub == ExactRawSubtotal(ls)
  IN  IF ap.type = "percentage"
        THEN DecSub(sub, DecMul(sub, DecDiv100(DecOfLit(ap.value))))
      ELSE IF ap.type = "fixed" THEN DecSub(sub, DecOfLit(ap.value))
      ELSE sub

\* round-half-up(max(0, D) * 1.085), in cents.
ExactTotal(ls, ap) ==
  LET D == ExactDiscounted(ls, ap)
      clamped == IF DecLtZero(D) THEN DecZero ELSE D
  IN  QuantizeHalfUp(DecMul(clamped, DecOfLit(1085)))

---------------------------------------------------------------------------
(* Claims.                                                                 *)

\* C1: total() is never negative, whatever the items and the discount: a
\* discount larger than the subtotal gives a total of 0.
C1_TotalNeverNegative == get_total(items, discount) >= 0

\* A fixed discount of 150 on a cart worth less: the total is 0.
C1_Witness ==
  /\ items # << >>
  /\ applied # NoDiscount
  /\ applied.type = "fixed"
  /\ applied.value = 150000
  /\ Len(items) = 1
  /\ get_total(items, discount) = 0

\* C2: total() equals round-half-up(max(0, D) * 1.085), D being the exact
\* subtotal less the active discount; the clamp comes before the tax and
\* the only rounding is the last step.
C2_TotalIsExact == get_total(items, discount) = ExactTotal(lits, applied)

\* C3: the active discount is exactly the one of the latest apply_discount
\* call; add_item and remove_item never change or clear the slot.
C3_DiscountIsLatest ==
  IF applied = NoDiscount THEN discount = NoDiscount
  ELSE /\ discount # NoDiscount
       /\ discount.type = applied.type
       /\ discount.value = FloatOf[applied.value]
       /\ discount.code = "SAVE"

\* A second apply_discount has replaced a discount, with items in the cart.
C3_Witness == last = "apply_discount, again" /\ items # << >>

\* C4: add_item with price < 0 or quantity <= 0 raises ValueError and
\* leaves the items and the discount as they were, whether or not the name
\* is in the cart.
C4_RejectedAddChangesNothing ==
  [][\A n \in Names, p \in PriceLits, q \in QuantityLits :
       ((p < 0 \/ q <= 0) /\ AddItem(n, p, q)) =>
          /\ last' \in {"add_item raised, name present",
                        "add_item raised, name absent"}
          /\ items' = items
          /\ discount' = discount]_vars

\* A rejected add for a name in the cart, a discount being active.
C4_Witness == last = "add_item raised, name present" /\ discount # NoDiscount

\* C5: every stored item has price >= 0 and quantity > 0.
C5_StoredItemsValid ==
  \A i \in 1..Len(items) :
    /\ ~FLtZero(items[i].price)
    /\ ~FLeZero(items[i].quantity)
    /\ lits[i].price >= 0
    /\ lits[i].quantity > 0

\* Two items, one of them added to twice.
C5_Witness == Len(items) = 2 /\ \E n \in Names : adds[n] >= 2

\* C6: count() is the number of distinct names added and not removed
\* since; adding to an existing name and a rejected add leave it.
C6_CountIsLiveNames == get_item_count(items) = Cardinality(live)

\* One of two names has been removed.
C6_Witness == last = "remove_item, name present" /\ get_item_count(items) = 1

\* C7: subtotal() is the exact sum of price * quantity rounded half-up to
\* two decimals (7.475 gives 7.48).
C7_SubtotalIsExact == get_subtotal(items) = ExactSubtotal(lits)

\* C8: remove_item never fails; on an absent name it changes nothing
\* (items, discount, count, subtotal, total); on a present name it deletes
\* that entry and leaves every other entry and the discount.
C8_RemoveItemFrame ==
  [][\A n \in Names : RemoveItem(n) =>
       /\ last' \in {"remove_item, name present", "remove_item, name absent"}
       /\ discount' = discount
       /\ IF Has(items, n)
            THEN /\ ~Has(items', n)
                 /\ Len(items') = Len(items) - 1
                 /\ \A i \in 1..Len(items) :
                      items[i].name # n =>
                        \E j \in 1..Len(items') : items'[j] = items[i]
            ELSE /\ items' = items
                 /\ get_item_count(items') = get_item_count(items)
                 /\ get_subtotal(items') = get_subtotal(items)
                 /\ get_total(items', discount') = get_total(items, discount)]_vars

\* remove_item of an absent name, with an item and a discount in place.
C8_Witness ==
  last = "remove_item, name absent" /\ items # << >> /\ discount # NoDiscount

\* C9: add_item for a name in the cart adds the quantity to the stored one
\* and keeps the first price, even when called with another price; the
\* stored price is the one of the first add since the name was last absent.
C9_ReAddKeepsPrice ==
  /\ [][\A n \in Names, p \in PriceLits, q \in QuantityLits :
          (p >= 0 /\ q > 0 /\ Has(items, n) /\ AddItem(n, p, q)) =>
             LET i == IndexOf(items, n)
             IN  /\ Len(items') = Len(items)
                 /\ items'[i].name = n
                 /\ items'[i].price = items[i].price
                 /\ items'[i].quantity = FAdd(items[i].quantity, FloatOf[q])
                 /\ \A j \in 1..Len(items) : j # i => items'[j] = items[j]]_vars
  /\ [](\A i \in 1..Len(items) : items[i].price = FloatOf[lits[i].price])

\* An add with another price for a name in the cart.
C9_Witness == last = "add_item, name present, other price"

\* C10: apply_discount never fails; a discount whose type is neither
\* "percentage" nor "fixed" is stored, replacing the one before, and gives
\* the total of a cart without discount.
C10_UnknownTypeIsNoDiscount ==
  /\ (applied # NoDiscount /\ applied.type = "bogus") =>
        /\ discount # NoDiscount
        /\ discount.type = "bogus"
        /\ get_total(items, discount) = get_total(items, NoDiscount)
  /\ (last \in {"apply_discount, first", "apply_discount, again"}) =>
        discount # NoDiscount

\* An unknown-type discount has replaced a discount on a cart with items.
C10_Witness ==
  /\ last = "apply_discount, again"
  /\ discount.type = "bogus"
  /\ items # << >>
  /\ get_total(items, discount) > 0

=============================================================================
